---- MODULE Spec2Model ----
(***************************************************************************)
(* Booking lifecycle, conflict detection and payment reconciliation of     *)
(* the kitchen-equipment rental backend.                                   *)
(*                                                                         *)
(* Time is counted in ticks; one calendar day is TicksPerDay ticks, so a   *)
(* timestamp carries a calendar day (t \div TicksPerDay) and a time of     *)
(* day (t % TicksPerDay).  24 hours are TicksPerDay ticks.                 *)
(***************************************************************************)
EXTENDS Integers, Sequences, FiniteSets, TLC

VARIABLES now, bookings, nextBookingId, payments, inflight, response

vars == <<now, bookings, nextBookingId, payments, inflight, response>>

----------------------------------------------------------------------------
(* Bounds of the model *)

MaxTime == 4
MaxNow == 1
MaxBookings == 2
MaxPayments == 1
TicksPerDay == 2
MaxDays == 3

MaxIntents == 2

(* Program constants *)

DaysPerYear == 365
CancelNoticeHours == 24
HoursPerDay == 24

----------------------------------------------------------------------------
(* Actors, equipment and value domains *)

Users == {"c1", "c2", "a1", "l1"}

role(u) == CASE u = "a1" -> "admin"
             [] u = "l1" -> "logistics"
             [] OTHER -> "customer"

Creators == {"c1"}

EquipmentIds == {"e1", "e2"}

EquipmentInputs == {"e1", "e2", "e0"}

equipmentRepository ==
    [e \in EquipmentIds |->
        IF e = "e1" THEN [status |-> "available", dailyRate |-> 50]
                    ELSE [status |-> "maintenance", dailyRate |-> 100]]

BookingStatus == {"pending", "confirmed", "active", "completed", "cancelled"}

PaymentStatus == {"pending", "succeeded", "failed", "refunded"}

Times == 0..MaxTime

(* Calendar dates: timestamps at midnight *)
Dates == {t \in Times : t % TicksPerDay = 0}

NoId == 0

(* An optional value is the empty sequence (absent) or a one-element sequence *)
Some(v) == <<v>>

Has(o) == o # <<>>

Get(o) == o[1]

OrElse(o, d) == IF Has(o) THEN Get(o) ELSE d

Opt(S) == {<<>>} \cup {Some(v) : v \in S}

----------------------------------------------------------------------------
(* Pure helpers of the booking service and of the repository *)

StartOfDay(t) == (t \div TicksPerDay) * TicksPerDay

(* A division that rounds down *)
CeilDiv_Floor(a, b) == a \div b

CeilDiv(a, b) == IF a >= 0 THEN (a + b - 1) \div b ELSE -((-a) \div b)

(* The calendar of the model: day LeapDay is a 29 February *)
LeapDay == 0

(* setFullYear(getFullYear() + 1): the same calendar date one year later; *)
(* from 29 February it is 1 March, 366 days later                          *)
sameDateNextYear(t) ==
    t + (IF t \div TicksPerDay <= LeapDay THEN DaysPerYear + 1 ELSE DaysPerYear)
        * TicksPerDay

(* A validation that lets a window end on the day it starts *)
validateBookingDates_SameDay(startDate, endDate, t) ==
    LET today == StartOfDay(t)
        start == StartOfDay(startDate)
        end   == StartOfDay(endDate)
        maxDate == sameDateNextYear(t)
    IN  IF start < today THEN "Validation"
        ELSE IF end < start THEN "Validation"
        ELSE IF start > maxDate THEN "Validation"
        ELSE "ok"

validateBookingDates(startDate, endDate, t) ==
    LET today == StartOfDay(t)
        start == StartOfDay(startDate)
        end   == StartOfDay(endDate)
        maxDate == sameDateNextYear(t)
    IN  IF start < today THEN "Validation"
        ELSE IF end <= start THEN "Validation"
        ELSE IF start > maxDate THEN "Validation"
        ELSE "ok"

ActiveStatuses == {"pending", "confirmed", "active"}

(* A query without the clause for a stored window inside the candidate *)
ConflictClause_NoContainment(b, startDate, endDate) ==
    \/ (b.startDate <= startDate /\ b.endDate >= startDate)
    \/ (b.startDate <= endDate /\ b.endDate >= endDate)

ConflictClause(b, startDate, endDate) ==
    \/ (b.startDate <= startDate /\ b.endDate >= startDate)
    \/ (b.startDate <= endDate /\ b.endDate >= endDate)
    \/ (b.startDate >= startDate /\ b.endDate <= endDate)

checkConflict(store, equipmentId, startDate, endDate, excludeBookingId) ==
    \E id \in DOMAIN store :
        /\ store[id].equipmentId = equipmentId
        /\ store[id].status \in ActiveStatuses
        /\ ConflictClause(store[id], startDate, endDate)
        /\ (excludeBookingId # NoId => id # excludeBookingId)

calculateTotalAmount(equipmentId, startDate, endDate) ==
    IF equipmentId \notin DOMAIN equipmentRepository
    THEN [err |-> "NotFound", amount |-> 0]
    ELSE LET days == CeilDiv(endDate - startDate, TicksPerDay)
         IN  IF days < 1
             THEN [err |-> "Validation", amount |-> 0]
             ELSE [err |-> "ok",
                   amount |-> equipmentRepository[equipmentId].dailyRate * days]

(* Schema validators of the booking model.  On save `this` is the document; *)
(* under findByIdAndUpdate with runValidators `this` is the query, which   *)
(* has no startDate, so thisStartDate is absent and the comparison         *)
(* `value > undefined` is false.                                            *)
startDateValidator(value, t) == value >= t

endDateValidator(value, thisStartDate) ==
    IF Has(thisStartDate) THEN value > Get(thisStartDate) ELSE FALSE

----------------------------------------------------------------------------
(* State *)

NoRequest == [stage |-> "idle"]

Procs == {"p1", "p2"}

Idle == [p \in Procs |-> NoRequest]

(* emitToUser / emitToAdmins: the event reaches the sink, or getIO or the  *)
(* socket throws and the error is logged and swallowed                    *)
Emitted(evs, sinkOk) == IF sinkOk THEN evs ELSE {}

(* An emitter that lets the error of the sink reach its caller *)
afterEmit_Throws(result, sinkOk) ==
    IF result = "ok" /\ ~sinkOk THEN "Internal" ELSE result

(* every emitter catches and logs the error of the sink: the caller goes   *)
(* on to return what it had                                                *)
afterEmit(result, sinkOk) == result

(* the sink is only reached by an operation that succeeded *)
SinkOutcomes(result) == IF result = "ok" THEN BOOLEAN ELSE {FALSE}

StatusOf(store, id) == IF id \in DOMAIN store THEN store[id].status ELSE "none"

PaymentStatusOf(store, pid) == IF pid \in DOMAIN store THEN store[pid].status ELSE "none"

(* The response of the operation that just ran: what it was called on and *)
(* how it ended; pre and prePayment are the booking's and the payment's   *)
(* status it found.  The response is handed to the caller before the next *)
(* operation runs.                                                         *)
NoResponse ==
    [op |-> "none", id |-> NoId, user |-> "none", pre |-> "none", prePayment |-> "none",
     result |-> "ok", emitted |-> {}]

Ready == response = NoResponse

Outcome(op, id, user, pre, result, evs) ==
    [op |-> op, id |-> id, user |-> user, pre |-> pre, prePayment |-> "none",
     result |-> result, emitted |-> IF result = "ok" THEN evs ELSE {}]

(* the response of an operation together with the request body it served *)
RequestOutcome(op, id, user, pre, result, evs, request) ==
    [op |-> op, id |-> id, user |-> user, pre |-> pre, prePayment |-> "none",
     result |-> result, emitted |-> IF result = "ok" THEN evs ELSE {},
     request |-> request]

PaymentOutcome(op, id, pre, prePayment, result, evs) ==
    [op |-> op, id |-> id, user |-> "none", pre |-> pre, prePayment |-> prePayment,
     result |-> result, emitted |-> IF result = "ok" THEN evs ELSE {}]

Init ==
    /\ now = 0
    /\ bookings = <<>>
    /\ nextBookingId = 1
    /\ payments = <<>>
    /\ inflight = Idle
    /\ response = NoResponse

(* The clock advances *)
Tick ==
    /\ Ready
    /\ now < MaxNow
    /\ now' = now + 1
    /\ UNCHANGED <<bookings, nextBookingId, payments, inflight, response>>

Return ==
    /\ ~Ready
    /\ response' = NoResponse
    /\ UNCHANGED <<now, bookings, nextBookingId, payments, inflight>>

----------------------------------------------------------------------------
(* Repository writes *)

Insert(store, id, rec) ==
    [i \in DOMAIN store \cup {id} |-> IF i = id THEN rec ELSE store[i]]

Remove(store, id) == [i \in DOMAIN store \ {id} |-> store[i]]

updateStatus(store, id, status) == [store EXCEPT ![id].status = status]

----------------------------------------------------------------------------
(* BookingService.createBooking *)

(* A creation that looks the equipment up before it validates the window *)
createBookingCheck_EquipmentFirst(store, t, data) ==
    IF data.equipmentId \notin DOMAIN equipmentRepository
    THEN "NotFound"
    ELSE IF validateBookingDates(data.startDate, data.endDate, t) # "ok"
    THEN "Validation"
    ELSE IF equipmentRepository[data.equipmentId].status # "available"
    THEN "Validation"
    ELSE IF checkConflict(store, data.equipmentId, data.startDate, data.endDate, NoId)
    THEN "Conflict"
    ELSE "ok"

createBookingCheck(store, t, data) ==
    IF validateBookingDates(data.startDate, data.endDate, t) # "ok"
    THEN "Validation"
    ELSE IF data.equipmentId \notin DOMAIN equipmentRepository
    THEN "NotFound"
    ELSE IF equipmentRepository[data.equipmentId].status # "available"
    THEN "Validation"
    ELSE IF checkConflict(store, data.equipmentId, data.startDate, data.endDate, NoId)
    THEN "Conflict"
    ELSE "ok"

createBookingSave(t, data) ==
    LET total == calculateTotalAmount(data.equipmentId, data.startDate, data.endDate)
    IN  IF total.err # "ok" THEN total.err
        ELSE IF ~(/\ startDateValidator(data.startDate, t)
                  /\ endDateValidator(data.endDate, Some(data.startDate)))
        THEN "Database"
        ELSE "ok"

NewBooking(data) ==
    [customerId |-> data.customerId,
     equipmentId |-> data.equipmentId,
     startDate |-> data.startDate,
     endDate |-> data.endDate,
     deliveryAddress |-> data.deliveryAddress,
     notes |-> "",
     status |-> "pending",
     totalAmount |->
        calculateTotalAmount(data.equipmentId, data.startDate, data.endDate).amount]

CreateInputs ==
    {data \in [customerId : Creators, equipmentId : EquipmentInputs,
               startDate : Dates, endDate : Dates, deliveryAddress : {"addr1"}] :
        data.startDate <= data.endDate}

createBooking(data) ==
    LET checked == createBookingCheck(bookings, now, data)
        result == IF checked # "ok" THEN checked ELSE createBookingSave(now, data)
    IN  /\ Ready
        /\ (result = "ok" => nextBookingId <= MaxBookings)
        /\ IF result = "ok"
           THEN /\ bookings' = Insert(bookings, nextBookingId, NewBooking(data))
                /\ nextBookingId' = nextBookingId + 1
           ELSE UNCHANGED <<bookings, nextBookingId>>
        /\ \E sinkOk \in SinkOutcomes(result) :
            response' = RequestOutcome("createBooking",
                            IF result = "ok" THEN nextBookingId ELSE NoId,
                            data.customerId, "none", afterEmit(result, sinkOk),
                            Emitted({"booking:created"}, sinkOk), data)
        /\ UNCHANGED <<now, payments, inflight>>

----------------------------------------------------------------------------
(* BookingService.updateBooking *)

BookingIds == 1..MaxBookings

(* An update gate that admits administrators only *)
isOperator_AdminOnly(userRole) == userRole = "admin"

isOperator(userRole) == userRole = "admin" \/ userRole = "logistics"

DatesGiven(data) == Has(data.startDate) \/ Has(data.endDate)

updateValidators(data, t) ==
    /\ Has(data.startDate) => startDateValidator(Get(data.startDate), t)
    /\ Has(data.endDate) => endDateValidator(Get(data.endDate), <<>>)

(* updateBooking up to the call of the repository's updateById *)
updateBookingCheck(store, t, id, data, userId) ==
    IF id \notin DOMAIN store THEN "NotFound"
    ELSE LET booking == store[id]
             startDate == OrElse(data.startDate, booking.startDate)
             endDate == OrElse(data.endDate, booking.endDate)
         IN  IF ~isOperator(role(userId)) /\ booking.customerId # userId
             THEN "Authorization"
             ELSE IF booking.status \in {"completed", "cancelled"}
             THEN "Validation"
             ELSE IF DatesGiven(data)
                     /\ validateBookingDates(startDate, endDate, t) # "ok"
             THEN "Validation"
             ELSE IF DatesGiven(data)
                     /\ checkConflict(store, booking.equipmentId, startDate, endDate, id)
             THEN "Conflict"
             ELSE IF DatesGiven(data)
                     /\ calculateTotalAmount(booking.equipmentId, startDate, endDate).err # "ok"
             THEN calculateTotalAmount(booking.equipmentId, startDate, endDate).err
             ELSE "ok"

updateBookingResult(store, t, id, data, userId) ==
    IF updateBookingCheck(store, t, id, data, userId) # "ok"
    THEN updateBookingCheck(store, t, id, data, userId)
    ELSE IF ~updateValidators(data, t) THEN "Database"
    ELSE "ok"

(* repository updateById: $set of every field the patch carries *)
updateById(booking, data) ==
    LET startDate == OrElse(data.startDate, booking.startDate)
        endDate == OrElse(data.endDate, booking.endDate)
    IN  [booking EXCEPT
            !.startDate = startDate,
            !.endDate = endDate,
            !.deliveryAddress = OrElse(data.deliveryAddress, @),
            !.notes = OrElse(data.notes, @),
            !.status = OrElse(data.status, @),
            !.totalAmount =
                IF DatesGiven(data)
                THEN calculateTotalAmount(booking.equipmentId, startDate, endDate).amount
                ELSE OrElse(data.totalAmount, @)]

AddressPatches == {}

NotesPatches == {}

(* The request body reaches the service as it was sent: the route's schema *)
(* does not name totalAmount and does not strip it                        *)
AmountPatches == {1}

FieldsGiven(data) ==
    Cardinality({f \in {"startDate", "endDate", "deliveryAddress", "notes", "status",
                        "totalAmount"} :
                    Has(data[f])})

UpdateInputs ==
    {data \in [startDate : Opt(Dates), endDate : Opt(Dates),
               deliveryAddress : Opt(AddressPatches), notes : Opt(NotesPatches),
               status : Opt(BookingStatus), totalAmount : {<<>>}] :
        \/ FieldsGiven(data) <= 1
        \/ /\ FieldsGiven(data) = 2 /\ Has(data.startDate) /\ Has(data.endDate)
           /\ Get(data.startDate) < Get(data.endDate)}

updateBooking(id, data, userId) ==
    LET result == updateBookingResult(bookings, now, id, data, userId)
    IN  /\ Ready
        /\ IF result = "ok"
           THEN bookings' = [bookings EXCEPT ![id] = updateById(@, data)]
           ELSE UNCHANGED bookings
        /\ \E sinkOk \in SinkOutcomes(result) :
            response' = RequestOutcome("updateBooking", id, userId,
                            StatusOf(bookings, id), afterEmit(result, sinkOk),
                            Emitted({"booking:updated"}, sinkOk), data)
        /\ UNCHANGED <<now, nextBookingId, payments, inflight>>

----------------------------------------------------------------------------
(* BookingService.cancelBooking, confirmBooking, startBooking,            *)
(* completeBooking, deleteBooking                                          *)

(* A gate that also refuses a cancellation exactly 24 hours ahead *)
withinCancelNotice_Inclusive(startDate, t) ==
    (startDate - t) * HoursPerDay <= CancelNoticeHours * TicksPerDay

(* hoursUntilStart < 24, with hoursUntilStart = (startDate - now) in hours *)
withinCancelNotice(startDate, t) ==
    (startDate - t) * HoursPerDay < CancelNoticeHours * TicksPerDay

cancelBookingResult(store, t, id, userId) ==
    IF id \notin DOMAIN store THEN "NotFound"
    ELSE LET booking == store[id]
         IN  IF role(userId) # "admin" /\ booking.customerId # userId
             THEN "Authorization"
             ELSE IF booking.status = "completed" THEN "Validation"
             ELSE IF booking.status = "cancelled" THEN "Validation"
             ELSE IF withinCancelNotice(booking.startDate, t) /\ role(userId) # "admin"
             THEN "Validation"
             ELSE "ok"

cancelBooking(id, userId) ==
    LET result == cancelBookingResult(bookings, now, id, userId)
    IN  /\ Ready
        /\ IF result = "ok"
           THEN bookings' = updateStatus(bookings, id, "cancelled")
           ELSE UNCHANGED bookings
        /\ \E sinkOk \in SinkOutcomes(result) :
            response' = Outcome("cancelBooking", id, userId, StatusOf(bookings, id),
                            afterEmit(result, sinkOk),
                            Emitted({"booking:cancelled"}, sinkOk))
        /\ UNCHANGED <<now, nextBookingId, payments, inflight>>

(* A confirm that does not look at the status *)
confirmBookingResult_AnyStatus(store, id) ==
    IF id \notin DOMAIN store THEN "NotFound"
    ELSE "ok"

confirmBookingResult(store, id) ==
    IF id \notin DOMAIN store THEN "NotFound"
    ELSE IF store[id].status # "pending" THEN "Validation"
    ELSE "ok"

confirmBooking(id) ==
    LET result == confirmBookingResult(bookings, id)
    IN  /\ Ready
        /\ IF result = "ok"
           THEN bookings' = updateStatus(bookings, id, "confirmed")
           ELSE UNCHANGED bookings
        /\ \E sinkOk \in SinkOutcomes(result) :
            response' = Outcome("confirmBooking", id, "none", StatusOf(bookings, id),
                            afterEmit(result, sinkOk),
                            Emitted({"booking:confirmed"}, sinkOk))
        /\ UNCHANGED <<now, nextBookingId, payments, inflight>>

(* A start whose date comparison is turned around *)
startBookingResult_Inverted(store, t, id) ==
    IF id \notin DOMAIN store THEN "NotFound"
    ELSE IF store[id].status # "confirmed" THEN "Validation"
    ELSE IF t > store[id].startDate THEN "Validation"
    ELSE "ok"

(* A start that does not look at the clock *)
startBookingResult_IgnoresDate(store, t, id) ==
    IF id \notin DOMAIN store THEN "NotFound"
    ELSE IF store[id].status # "confirmed" THEN "Validation"
    ELSE "ok"

startBookingResult(store, t, id) ==
    IF id \notin DOMAIN store THEN "NotFound"
    ELSE IF store[id].status # "confirmed" THEN "Validation"
    ELSE IF t < store[id].startDate THEN "Validation"
    ELSE "ok"

startBooking(id) ==
    LET result == startBookingResult(bookings, now, id)
    IN  /\ Ready
        /\ IF result = "ok"
           THEN bookings' = updateStatus(bookings, id, "active")
           ELSE UNCHANGED bookings
        /\ response' = Outcome("startBooking", id, "none", StatusOf(bookings, id),
                           result, {})
        /\ UNCHANGED <<now, nextBookingId, payments, inflight>>

completeBookingResult(store, id) ==
    IF id \notin DOMAIN store THEN "NotFound"
    ELSE IF store[id].status # "active" THEN "Validation"
    ELSE "ok"

completeBooking(id) ==
    LET result == completeBookingResult(bookings, id)
    IN  /\ Ready
        /\ IF result = "ok"
           THEN bookings' = updateStatus(bookings, id, "completed")
           ELSE UNCHANGED bookings
        /\ response' = Outcome("completeBooking", id, "none", StatusOf(bookings, id),
                           result, {})
        /\ UNCHANGED <<now, nextBookingId, payments, inflight>>

(* A delete that refuses only bookings in progress *)
deleteBookingResult_NotActive(store, id) ==
    IF id \notin DOMAIN store THEN "NotFound"
    ELSE IF store[id].status = "active" THEN "Validation"
    ELSE "ok"

deleteBookingResult(store, id) ==
    IF id \notin DOMAIN store THEN "NotFound"
    ELSE IF store[id].status # "pending" /\ store[id].status # "cancelled"
    THEN "Validation"
    ELSE "ok"

deleteBooking(id) ==
    LET result == deleteBookingResult(bookings, id)
    IN  /\ Ready
        /\ IF result = "ok"
           THEN bookings' = Remove(bookings, id)
           ELSE UNCHANGED bookings
        /\ response' = Outcome("deleteBooking", id, "none", StatusOf(bookings, id),
                           result, {})
        /\ UNCHANGED <<now, nextBookingId, payments, inflight>>

----------------------------------------------------------------------------
(* PaymentService *)

PaymentIds == 1..MaxPayments

(* paymentRepository.findByBookingId: findOne returns the first stored match *)
findByBookingId(store, bookingId) ==
    LET matches == {p \in DOMAIN store : store[p].bookingId = bookingId}
    IN  IF matches = {} THEN NoId
        ELSE CHOOSE p \in matches : \A q \in matches : p <= q

(* "return" the existing intent, "create" a new one, or the error thrown *)
createPaymentIntentResult(bstore, pstore, bookingId, userId, retrieveOk, createOk) ==
    IF bookingId \notin DOMAIN bstore THEN "NotFound"
    ELSE LET booking == bstore[bookingId]
             existing == findByBookingId(pstore, bookingId)
         IN  IF role(userId) # "admin" /\ booking.customerId # userId
             THEN "Authorization"
             ELSE IF booking.status # "pending" /\ booking.status # "confirmed"
             THEN "Validation"
             ELSE IF existing # NoId /\ pstore[existing].status # "failed"
                     /\ pstore[existing].status # "pending"
             THEN "Validation"
             ELSE IF existing # NoId /\ pstore[existing].status = "pending" /\ retrieveOk
             THEN "return"
             ELSE IF ~createOk THEN "ExternalService"
             ELSE "create"

createPaymentIntentUpTo(limit, bookingId, userId, retrieveOk, createOk, sinkOk) ==
    LET step == createPaymentIntentResult(bookings, payments, bookingId, userId,
                                          retrieveOk, createOk)
        pid == Cardinality(DOMAIN payments) + 1
        result == IF step \in {"return", "create"} THEN "ok" ELSE step
    IN  /\ Ready
        /\ (step = "create" => pid <= limit)
        /\ IF step = "create"
           THEN payments' = Insert(payments, pid,
                                [bookingId |-> bookingId, status |-> "pending",
                                 amount |-> bookings[bookingId].totalAmount])
           ELSE UNCHANGED payments
        /\ response' = Outcome("createPaymentIntent",
                           IF step = "create" THEN pid
                           ELSE IF step = "return" THEN findByBookingId(payments, bookingId)
                           ELSE NoId,
                           userId, StatusOf(bookings, bookingId), result,
                           IF step = "create"
                           THEN Emitted({"payment:intent_created"}, sinkOk) ELSE {})
        /\ UNCHANGED <<now, bookings, nextBookingId, inflight>>

createPaymentIntent(bookingId, userId, retrieveOk, createOk, sinkOk) ==
    createPaymentIntentUpTo(MaxPayments, bookingId, userId, retrieveOk, createOk, sinkOk)

(* A handler that refuses a payment it has already recorded as succeeded  *)
handlePaymentSuccessResult_RejectsReplay(bstore, pstore, pid) ==
    IF pid \notin DOMAIN pstore THEN "ok"
    ELSE IF pstore[pid].status = "succeeded" THEN "Validation"
    ELSE IF pstore[pid].bookingId \notin DOMAIN bstore THEN "NotFound"
    ELSE "ok"

(* handlePaymentSuccess returns silently when the payment is unknown and  *)
(* rethrows the NotFound of bookingRepository.updateStatus                *)
handlePaymentSuccessResult(bstore, pstore, pid) ==
    IF pid \notin DOMAIN pstore THEN "ok"
    ELSE IF pstore[pid].bookingId \notin DOMAIN bstore THEN "NotFound"
    ELSE "ok"

(* The webhook delivers payment_intent.succeeded for payment intent pid *)
handlePaymentSuccess(pid, sinkOk) ==
    /\ Ready
    /\ IF pid \notin DOMAIN payments
       THEN /\ response' = PaymentOutcome("handlePaymentSuccess", pid, "none", "none", "ok", {})
            /\ UNCHANGED <<now, bookings, nextBookingId, payments, inflight>>
       ELSE LET bookingId == payments[pid].bookingId
                found == bookingId \in DOMAIN bookings
            IN  /\ payments' = [payments EXCEPT ![pid].status = "succeeded"]
                /\ IF found
                   THEN bookings' = updateStatus(bookings, bookingId, "confirmed")
                   ELSE UNCHANGED bookings
                /\ response' = PaymentOutcome("handlePaymentSuccess", pid,
                                   StatusOf(bookings, bookingId),
                                   PaymentStatusOf(payments, pid),
                                   afterEmit(handlePaymentSuccessResult(bookings,
                                                                        payments, pid),
                                             sinkOk),
                                   Emitted({"payment:succeeded", "booking:confirmed"}, sinkOk))
                /\ UNCHANGED <<now, nextBookingId, inflight>>

(* A failure handler that also cancels the booking the payment was for *)
handlePaymentFailure_CancelsBooking(pid, sinkOk) ==
    /\ Ready
    /\ pid \in DOMAIN payments
    /\ payments[pid].bookingId \in DOMAIN bookings
    /\ payments' = [payments EXCEPT ![pid].status = "failed"]
    /\ bookings' = updateStatus(bookings, payments[pid].bookingId, "cancelled")
    /\ response' = PaymentOutcome("handlePaymentFailure", pid,
                       StatusOf(bookings, payments[pid].bookingId),
                       PaymentStatusOf(payments, pid), "ok",
                       Emitted({"payment:failed"}, sinkOk))
    /\ UNCHANGED <<now, nextBookingId, inflight>>

(* The webhook delivers payment_intent.payment_failed for payment intent pid *)
handlePaymentFailure(pid, sinkOk) ==
    /\ Ready
    /\ IF pid \notin DOMAIN payments
       THEN /\ response' = PaymentOutcome("handlePaymentFailure", pid, "none", "none", "ok", {})
            /\ UNCHANGED <<now, bookings, nextBookingId, payments, inflight>>
       ELSE LET bookingId == payments[pid].bookingId
            IN  /\ payments' = [payments EXCEPT ![pid].status = "failed"]
                /\ response' = PaymentOutcome("handlePaymentFailure", pid,
                                   StatusOf(bookings, bookingId),
                                   PaymentStatusOf(payments, pid), "ok",
                                   IF bookingId \in DOMAIN bookings
                                   THEN Emitted({"payment:failed"}, sinkOk) ELSE {})
                /\ UNCHANGED <<now, bookings, nextBookingId, inflight>>

(* an absent amount is a full refund; a present one is partial *)
RefundAmounts == Opt({1})

refundPaymentResult(pstore, pid, refundOk) ==
    IF pid \notin DOMAIN pstore THEN "NotFound"
    ELSE IF pstore[pid].status # "succeeded" /\ pstore[pid].status # "refunded"
    THEN "Validation"
    ELSE IF pstore[pid].status = "refunded" THEN "Validation"
    ELSE IF ~refundOk THEN "ExternalService"
    ELSE "ok"

refundPayment(pid, amount, refundOk, sinkOk) ==
    LET checked == refundPaymentResult(payments, pid, refundOk)
    IN  /\ Ready
        /\ IF checked # "ok"
           THEN /\ response' = PaymentOutcome("refundPayment", pid, "none",
                                          PaymentStatusOf(payments, pid), checked, {})
                /\ UNCHANGED <<now, bookings, nextBookingId, payments, inflight>>
           ELSE LET payment == payments[pid]
                    refundAmount == OrElse(amount, payment.amount)
                    full == refundAmount >= payment.amount
                    found == payment.bookingId \in DOMAIN bookings
                IN  /\ payments' = [payments EXCEPT ![pid].status = "refunded"]
                    /\ IF full /\ found
                       THEN bookings' = updateStatus(bookings, payment.bookingId, "cancelled")
                       ELSE UNCHANGED bookings
                    /\ response' = PaymentOutcome("refundPayment", pid,
                                       StatusOf(bookings, payment.bookingId),
                                       PaymentStatusOf(payments, pid),
                                       IF full /\ ~found THEN "ExternalService" ELSE "ok",
                                       IF found THEN Emitted({"payment:refunded"}, sinkOk)
                                       ELSE {})
                    /\ UNCHANGED <<now, nextBookingId, inflight>>

----------------------------------------------------------------------------
(* Every operation runs to completion before the next starts *)

Next ==
    \/ Tick
    \/ Return
    \/ \E data \in CreateInputs : createBooking(data)
    \/ \E id \in BookingIds, data \in UpdateInputs, u \in Users : updateBooking(id, data, u)
    \/ \E id \in BookingIds, u \in Users : cancelBooking(id, u)
    \/ \E id \in BookingIds : confirmBooking(id)
    \/ \E id \in BookingIds : startBooking(id)
    \/ \E id \in BookingIds : completeBooking(id)
    \/ \E id \in BookingIds : deleteBooking(id)
    \/ \E id \in BookingIds, u \in Users, r \in BOOLEAN, c \in BOOLEAN, sinkOk \in BOOLEAN :
            createPaymentIntent(id, u, r, c, sinkOk)
    \/ \E pid \in PaymentIds, sinkOk \in BOOLEAN : handlePaymentSuccess(pid, sinkOk)
    \/ \E pid \in PaymentIds, sinkOk \in BOOLEAN : handlePaymentFailure(pid, sinkOk)
    \/ \E pid \in PaymentIds, a \in RefundAmounts, ok \in BOOLEAN, sinkOk \in BOOLEAN :
            refundPayment(pid, a, ok, sinkOk)

Spec == Init /\ [][Next]_vars

----------------------------------------------------------------------------
(* Concurrent requests: createBooking awaits the conflict query and then  *)
(* the save, and another request's steps may run between the two.         *)

createBookingBegin(p, data) ==
    LET checked == createBookingCheck(bookings, now, data)
    IN  /\ inflight[p].stage = "idle"
        /\ inflight' = [inflight EXCEPT ![p] =
                IF checked = "ok"
                THEN [stage |-> "checked", data |-> data, result |-> "ok", id |-> NoId]
                ELSE [stage |-> "done", data |-> data, result |-> checked, id |-> NoId]]
        /\ UNCHANGED <<now, bookings, nextBookingId, payments, response>>

createBookingPersist(p) ==
    LET data == inflight[p].data
        result == createBookingSave(now, data)
    IN  /\ inflight[p].stage = "checked"
        /\ (result = "ok" => nextBookingId <= MaxBookings)
        /\ IF result = "ok"
           THEN /\ bookings' = Insert(bookings, nextBookingId, NewBooking(data))
                /\ nextBookingId' = nextBookingId + 1
           ELSE UNCHANGED <<bookings, nextBookingId>>
        /\ inflight' = [inflight EXCEPT ![p] =
                [stage |-> "done", data |-> data, result |-> result,
                 id |-> IF result = "ok" THEN nextBookingId ELSE NoId]]
        /\ UNCHANGED <<now, payments, response>>

(* updateBooking awaits findById, the conflict query and then updateById *)
updateBookingBegin(p, id, data, userId) ==
    LET checked == updateBookingCheck(bookings, now, id, data, userId)
        target == IF checked = "ok" THEN updateById(bookings[id], data)
                  ELSE [equipmentId |-> "none", startDate |-> 0, endDate |-> 0,
                        totalAmount |-> 0]
        request == [stage |-> IF checked = "ok" THEN "checkedUpdate" ELSE "updated",
                    data |-> [equipmentId |-> target.equipmentId,
                              startDate |-> target.startDate,
                              endDate |-> target.endDate],
                    result |-> checked, id |-> id, patch |-> data,
                    totalAmount |-> target.totalAmount]
    IN  /\ inflight[p].stage = "idle"
        /\ inflight' = [inflight EXCEPT ![p] = request]
        /\ UNCHANGED <<now, bookings, nextBookingId, payments, response>>

(* repository updateById: NotFound when the document is gone, the update   *)
(* validators, then $set of the patch with the amount computed before      *)
updateBookingPersist(p) ==
    LET id == inflight[p].id
        data == inflight[p].patch
        result == IF id \notin DOMAIN bookings THEN "NotFound"
                  ELSE IF ~updateValidators(data, now) THEN "Database"
                  ELSE "ok"
    IN  /\ inflight[p].stage = "checkedUpdate"
        /\ IF result = "ok"
           THEN bookings' = [bookings EXCEPT ![id] =
                                [updateById(@, data) EXCEPT
                                    !.totalAmount = inflight[p].totalAmount]]
           ELSE UNCHANGED bookings
        /\ inflight' = [inflight EXCEPT ![p] =
                            [@ EXCEPT !.stage = "updated", !.result = result]]
        /\ UNCHANGED <<now, nextBookingId, payments, response>>

(* the request is answered and the connection takes the next one *)
finish(p) ==
    /\ inflight[p].stage \in {"done", "updated", "answered"}
    /\ inflight' = [inflight EXCEPT ![p] = NoRequest]
    /\ UNCHANGED <<now, bookings, nextBookingId, payments, response>>

RaceDates == {d * TicksPerDay : d \in 0..MaxDays}

RaceCreateInputs ==
    {data \in [customerId : Creators, equipmentId : {"e1"},
               startDate : RaceDates, endDate : RaceDates,
               deliveryAddress : {"addr1"}] :
        data.startDate < data.endDate}

RaceUpdateInputs ==
    [startDate : Opt(RaceDates) \ {<<>>}, endDate : {<<>>},
     deliveryAddress : {<<>>}, notes : {<<>>}, status : {<<>>}, totalAmount : {<<>>}]

(* Creations are taken one at a time here: what overlaps in time is a     *)
(* creation and an update, or two updates                                  *)
NoCreationPending == \A q \in Procs : inflight[q].stage # "checked"

NextRaceUpdate ==
    \/ \E p \in Procs, data \in RaceCreateInputs :
            NoCreationPending /\ createBookingBegin(p, data)
    \/ \E p \in Procs : createBookingPersist(p)
    \/ \E p \in Procs, id \in BookingIds, data \in RaceUpdateInputs, u \in Creators :
            updateBookingBegin(p, id, data, u)
    \/ \E p \in Procs : updateBookingPersist(p)
    \/ \E p \in Procs : finish(p)

SpecRaceUpdate == Init /\ [][NextRaceUpdate]_vars

----------------------------------------------------------------------------
(* Status requests served concurrently: each awaits findById, tests its   *)
(* guard on the booking it read, and then awaits the repository write      *)

StatusOperations ==
    {"cancelBooking", "confirmBooking", "startBooking", "completeBooking",
     "deleteBooking"}

(* the status each operation hands to bookingRepository.updateStatus *)
StatusWritten ==
    [cancelBooking |-> "cancelled", confirmBooking |-> "confirmed",
     startBooking |-> "active", completeBooking |-> "completed"]

statusGuard(op, store, t, id, userId) ==
    CASE op = "cancelBooking" -> cancelBookingResult(store, t, id, userId)
      [] op = "confirmBooking" -> confirmBookingResult(store, id)
      [] op = "startBooking" -> startBookingResult(store, t, id)
      [] op = "completeBooking" -> completeBookingResult(store, id)
      [] op = "deleteBooking" -> deleteBookingResult(store, id)

statusBegin(p, op, id, userId) ==
    LET checked == statusGuard(op, bookings, now, id, userId)
    IN  /\ inflight[p].stage = "idle"
        /\ inflight' = [inflight EXCEPT ![p] =
                [stage |-> IF checked = "ok" THEN "checkedStatus" ELSE "answered",
                 op |-> op, id |-> id, result |-> checked,
                 read |-> StatusOf(bookings, id)]]
        /\ UNCHANGED <<now, bookings, nextBookingId, payments, response>>

(* updateStatus and deleteById look at nothing but the id: NotFound when   *)
(* the document is gone, otherwise the write                               *)
statusPersist(p) ==
    LET op == inflight[p].op
        id == inflight[p].id
        result == IF id \notin DOMAIN bookings THEN "NotFound" ELSE "ok"
    IN  /\ inflight[p].stage = "checkedStatus"
        /\ IF result # "ok" THEN UNCHANGED bookings
           ELSE IF op = "deleteBooking" THEN bookings' = Remove(bookings, id)
           ELSE bookings' = updateStatus(bookings, id, StatusWritten[op])
        /\ inflight' = [inflight EXCEPT ![p] =
                            [@ EXCEPT !.stage = "answered", !.result = result]]
        /\ UNCHANGED <<now, nextBookingId, payments, response>>

NextRaceStatus ==
    \/ \E p \in Procs, data \in RaceCreateInputs :
            NoCreationPending /\ createBookingBegin(p, data)
    \/ \E p \in Procs : createBookingPersist(p)
    \/ \E p \in Procs, op \in StatusOperations, id \in BookingIds, u \in Creators :
            statusBegin(p, op, id, u)
    \/ \E p \in Procs : statusPersist(p)
    \/ \E p \in Procs : finish(p)

SpecRaceStatus == Init /\ [][NextRaceStatus]_vars

NextRace ==
    \/ Tick
    \/ \E p \in Procs, data \in CreateInputs : createBookingBegin(p, data)
    \/ \E p \in Procs : createBookingPersist(p)

SpecRace == Init /\ [][NextRace]_vars

----------------------------------------------------------------------------
(* BookingService.checkAvailability *)

checkAvailabilityResult(t, equipmentId, startDate, endDate) ==
    IF validateBookingDates(startDate, endDate, t) # "ok" THEN "Validation"
    ELSE IF equipmentId \notin DOMAIN equipmentRepository THEN "NotFound"
    ELSE "ok"

(* An answer that looks at the conflicts only *)
isAvailable_IgnoresStatus(store, equipmentId, startDate, endDate) ==
    ~checkConflict(store, equipmentId, startDate, endDate, NoId)

isAvailable(store, equipmentId, startDate, endDate) ==
    IF equipmentRepository[equipmentId].status # "available" THEN FALSE
    ELSE ~checkConflict(store, equipmentId, startDate, endDate, NoId)

(* The answer carries the request and the availability it was given *)
AvailabilityOutcome(equipmentId, startDate, endDate, result, available) ==
    [op |-> "checkAvailability", id |-> NoId, user |-> "none", pre |-> "none",
     prePayment |-> "none", result |-> result, emitted |-> {},
     request |-> [equipmentId |-> equipmentId, startDate |-> startDate,
                  endDate |-> endDate],
     available |-> available]

checkAvailability(equipmentId, startDate, endDate) ==
    LET result == checkAvailabilityResult(now, equipmentId, startDate, endDate)
    IN  /\ Ready
        /\ response' = AvailabilityOutcome(equipmentId, startDate, endDate, result,
                            IF result = "ok"
                            THEN isAvailable(bookings, equipmentId, startDate, endDate)
                            ELSE FALSE)
        /\ UNCHANGED <<now, bookings, nextBookingId, payments, inflight>>

----------------------------------------------------------------------------
(* Requests that carry a time of day, and patches that carry an amount *)

TimedCreateInputs ==
    [customerId : Creators, equipmentId : EquipmentInputs,
     startDate : Times, endDate : Times, deliveryAddress : {"addr1"}]

TimedUpdateInputs ==
    {data \in [startDate : Opt(Times), endDate : {<<>>},
               deliveryAddress : {<<>>}, notes : {<<>>},
               status : {<<>>}, totalAmount : Opt(AmountPatches)] :
        FieldsGiven(data) = 1}

NextTimed ==
    \/ Tick
    \/ Return
    \/ \E data \in TimedCreateInputs : createBooking(data)
    \/ \E id \in BookingIds, data \in TimedUpdateInputs, u \in Users :
            updateBooking(id, data, u)
    \/ \E id \in BookingIds : confirmBooking(id)
    \/ \E id \in BookingIds : startBooking(id)
    \/ \E id \in BookingIds : cancelBooking(id, "a1")
    \/ \E e \in EquipmentInputs, s \in Times, f \in Times : checkAvailability(e, s, f)

SpecTimed == Init /\ [][NextTimed]_vars

----------------------------------------------------------------------------
(* BookingService.calculateTotalAmount called on its own *)

CalcTimes == 0..(MaxDays * TicksPerDay + 1)

AmountOutcome(equipmentId, startDate, endDate, total) ==
    [op |-> "calculateTotalAmount", id |-> NoId, user |-> "none", pre |-> "none",
     prePayment |-> "none", result |-> total.err, emitted |-> {},
     request |-> [equipmentId |-> equipmentId, startDate |-> startDate,
                  endDate |-> endDate],
     amount |-> total.amount]

calculateTotalAmountCall(equipmentId, startDate, endDate) ==
    /\ Ready
    /\ response' = AmountOutcome(equipmentId, startDate, endDate,
                        calculateTotalAmount(equipmentId, startDate, endDate))
    /\ UNCHANGED <<now, bookings, nextBookingId, payments, inflight>>

NextPricing ==
    \/ Return
    \/ \E e \in EquipmentInputs, s \in CalcTimes, f \in CalcTimes :
            calculateTotalAmountCall(e, s, f)

SpecPricing == Init /\ [][NextPricing]_vars

----------------------------------------------------------------------------
(* Availability requests for windows up to a year ahead and beyond, made   *)
(* on 29 February and on 1 March                                            *)

FarTimes ==
    Times \cup {(DaysPerYear + d) * TicksPerDay + h : d \in 0..3, h \in 0..(TicksPerDay - 1)}

FarNows == 0..(2 * TicksPerDay - 1)

InitFar ==
    /\ now \in FarNows
    /\ bookings = <<>>
    /\ nextBookingId = 1
    /\ payments = <<>>
    /\ inflight = Idle
    /\ response = NoResponse

NextFar ==
    \/ Return
    \/ \E e \in EquipmentInputs, s \in FarTimes, f \in FarTimes : checkAvailability(e, s, f)

SpecFar == InitFar /\ [][NextFar]_vars

----------------------------------------------------------------------------
(* The lifecycle requests run back to back on a booking made a week ahead: *)
(* start date LeadDays from now, end date ReturnDays from now.              *)

LeadDays == 7
ReturnDays == 10

WeekAheadInputs ==
    [customerId : Creators, equipmentId : EquipmentInputs,
     startDate : {now + LeadDays * TicksPerDay},
     endDate : {now + ReturnDays * TicksPerDay},
     deliveryAddress : {"addr1"}]

NextWeekAhead ==
    \/ Tick
    \/ Return
    \/ \E data \in WeekAheadInputs : createBooking(data)
    \/ \E id \in BookingIds : confirmBooking(id)
    \/ \E id \in BookingIds : startBooking(id)
    \/ \E id \in BookingIds : completeBooking(id)
    \/ \E id \in BookingIds, u \in Users : cancelBooking(id, u)

SpecWeekAhead == Init /\ [][NextWeekAhead]_vars

----------------------------------------------------------------------------
(* Payment intents asked for again and again for the bookings of one      *)
(* customer, with the gateway failing at will                              *)

IntentIds == 1..MaxIntents

NextIntents ==
    \/ Return
    \/ \E data \in CreateInputs : createBooking(data)
    \/ \E id \in BookingIds, u \in Creators, r \in BOOLEAN, c \in BOOLEAN,
          sinkOk \in BOOLEAN :
            createPaymentIntentUpTo(MaxIntents, id, u, r, c, sinkOk)
    \/ \E pid \in IntentIds, sinkOk \in BOOLEAN : handlePaymentSuccess(pid, sinkOk)
    \/ \E pid \in IntentIds, sinkOk \in BOOLEAN : handlePaymentFailure(pid, sinkOk)

SpecIntents == Init /\ [][NextIntents]_vars

----------------------------------------------------------------------------
(* Properties *)

Overlap(a, b) == a.startDate <= b.endDate /\ b.startDate <= a.endDate

BookingOf(pid) == payments[pid].bookingId

Succeeded(p) == inflight[p].stage = "done" /\ inflight[p].result = "ok"

(* C1: of two concurrent createBooking requests for the same equipment     *)
(* with overlapping windows, whose check and persist steps interleave in   *)
(* any order, at most one persists a booking.                              *)
C1_AtMostOneOverlappingCreate ==
    \A p, q \in Procs :
        (/\ p # q
         /\ Succeeded(p) /\ Succeeded(q)
         /\ inflight[p].data.equipmentId = inflight[q].data.equipmentId)
        => ~Overlap(inflight[p].data, inflight[q].data)

(* C2: in every state reached by operations run one at a time, no two      *)
(* stored bookings of one equipment with status pending, confirmed or      *)
(* active have overlapping windows (inclusive bounds).                     *)
C2_NoOverlappingActiveBookings ==
    \A i, j \in DOMAIN bookings :
        (/\ i # j
         /\ bookings[i].equipmentId = bookings[j].equipmentId
         /\ bookings[i].status \in ActiveStatuses
         /\ bookings[j].status \in ActiveStatuses)
        => ~Overlap(bookings[i], bookings[j])

TerminalStatuses == {"completed", "cancelled"}

(* C3: once a booking is completed or cancelled, no operation changes its  *)
(* status.                                                                  *)
C3_TerminalStatusIsFinal ==
    [][\A id \in DOMAIN bookings :
          (bookings[id].status \in TerminalStatuses /\ id \in DOMAIN bookings')
          => bookings'[id].status = bookings[id].status]_vars

LegalEdges ==
    {<<"pending", "confirmed">>, <<"confirmed", "active">>, <<"active", "completed">>,
     <<"pending", "cancelled">>, <<"confirmed", "cancelled">>}

(* C4: every change of a stored booking's status is one of the five legal  *)
(* edges, and a booking is created with status pending.                    *)
C4_OnlyLegalEdges ==
    [][/\ \A id \in DOMAIN bookings \cap DOMAIN bookings' :
            bookings'[id].status # bookings[id].status
            => <<bookings[id].status, bookings'[id].status>> \in LegalEdges
       /\ \A id \in DOMAIN bookings' \ DOMAIN bookings :
            bookings'[id].status = "pending"]_vars

DeliveredTo(pid) ==
    /\ response.op = "handlePaymentSuccess"
    /\ response.id = pid
    /\ pid \in DOMAIN payments
    /\ BookingOf(pid) \in DOMAIN bookings

(* C5: a payment-success delivery for a pending booking, and a second      *)
(* delivery for the then confirmed booking, each leave the booking         *)
(* confirmed and return without error.                                     *)
C5_PaymentConfirmIdempotent ==
    \A pid \in DOMAIN payments :
        (DeliveredTo(pid) /\ response.pre \in {"pending", "confirmed"})
        => /\ bookings[BookingOf(pid)].status = "confirmed"
           /\ response.result = "ok"

C5_SecondDelivery ==
    \E pid \in DOMAIN payments :
        /\ DeliveredTo(pid)
        /\ response.prePayment = "succeeded"
        /\ response.pre = "confirmed"
        /\ response.result = "ok"
        /\ bookings[BookingOf(pid)].status = "confirmed"

(* C6: a replay of the payment-success event for an already confirmed      *)
(* booking emits no further 'booking confirmed' or 'payment succeeded'     *)
(* event.                                                                   *)
C6_ReplayEmitsNothing ==
    \A pid \in DOMAIN payments :
        (DeliveredTo(pid) /\ response.prePayment = "succeeded"
                          /\ response.pre = "confirmed")
        => response.emitted \cap {"booking:confirmed", "payment:succeeded"} = {}

(* C7: a payment-success event for a cancelled booking changes nothing of  *)
(* the booking and returns without error.                                  *)
C7_LatePaymentIsNoOp ==
    \A pid \in DOMAIN payments :
        (DeliveredTo(pid) /\ response.pre = "cancelled")
        => /\ bookings[BookingOf(pid)].status = "cancelled"
           /\ response.result = "ok"

Cancelled(id) ==
    /\ response.op = "cancelBooking"
    /\ response.id = id
    /\ id \in DOMAIN bookings

(* the booking starts less than 24 hours from now *)
StartsWithinADay(id) == bookings[id].startDate - now < TicksPerDay

IsOwner(id) == bookings[id].customerId = response.user

CancelSucceeded(id) ==
    response.result = "ok" /\ bookings[id].status = "cancelled"

CancelRefused(id, error) ==
    response.result = error /\ bookings[id].status = response.pre

C9_CancelOnlyBeforeStart ==
    \A id \in DOMAIN bookings :
        (Cancelled(id) /\ (IsOwner(id) \/ isOperator(role(response.user))))
        => /\ response.result = "ok" => response.pre \in {"pending", "confirmed"}
           /\ response.pre \in {"active", "completed", "cancelled"}
              => CancelRefused(id, "Validation")

Started(id) ==
    /\ response.op = "startBooking"
    /\ response.id = id
    /\ id \in DOMAIN bookings

Completed(id) ==
    /\ response.op = "completeBooking"
    /\ response.id = id
    /\ id \in DOMAIN bookings

Calls(op) == response.op = "none" /\ response'.op = op

GuardedEdge(op, from, to) ==
    Calls(op) =>
        LET id == response'.id
        IN  IF id \notin DOMAIN bookings
            THEN response'.result = "NotFound" /\ bookings' = bookings
            ELSE IF bookings[id].status = from
            THEN /\ response'.result = "ok"
                 /\ bookings' = [bookings EXCEPT ![id].status = to]
            ELSE response'.result = "Validation" /\ bookings' = bookings

(* C12: confirmBooking makes the booking confirmed only when it is         *)
(* pending, completeBooking makes it completed only when it is active;     *)
(* from every other status each fails with Validation and leaves the       *)
(* booking unchanged, and each fails with NotFound when no such booking is *)
(* stored.                                                                  *)
C12_ConfirmAndCompleteGuards ==
    [][/\ GuardedEdge("confirmBooking", "pending", "confirmed")
       /\ GuardedEdge("completeBooking", "active", "completed")]_vars

C12_CompletedFromActive ==
    \E id \in DOMAIN bookings :
        /\ Completed(id)
        /\ response.pre = "active"
        /\ response.result = "ok"
        /\ bookings[id].status = "completed"

(* C13: once a booking is completed or cancelled no operation changes any  *)
(* of its fields, and updateBooking on it by its owner or an operator is   *)
(* rejected with Validation.                                               *)
C13_TerminalRecordIsFrozen ==
    [][\A id \in DOMAIN bookings :
          bookings[id].status \in TerminalStatuses
          => /\ id \in DOMAIN bookings' => bookings'[id] = bookings[id]
             /\ (/\ Calls("updateBooking") /\ response'.id = id
                 /\ (\/ response'.user = bookings[id].customerId
                     \/ isOperator(role(response'.user))))
                => response'.result = "Validation"]_vars

(* C14: deleteBooking removes the booking only when its status is pending  *)
(* or cancelled; when it is confirmed, active or completed the call fails  *)
(* with Validation and the booking stays stored, unchanged.                *)
C14_DeleteOnlyPendingOrCancelled ==
    [][Calls("deleteBooking") =>
        LET id == response'.id
        IN  id \in DOMAIN bookings =>
            IF bookings[id].status \in {"pending", "cancelled"}
            THEN /\ response'.result = "ok"
                 /\ DOMAIN bookings' = DOMAIN bookings \ {id}
                 /\ \A other \in DOMAIN bookings' : bookings'[other] = bookings[other]
            ELSE response'.result = "Validation" /\ bookings' = bookings]_vars

C14_CancelledBookingDeleted ==
    /\ response.op = "deleteBooking"
    /\ response.pre = "cancelled"
    /\ response.result = "ok"
    /\ response.id \notin DOMAIN bookings

(* the number of days charged for a window: the least n with n days >=    *)
(* endDate - startDate                                                     *)
DaysCharged(startDate, endDate) ==
    CHOOSE n \in 0..(endDate - startDate + 1) :
        /\ n * TicksPerDay >= endDate - startDate
        /\ (n - 1) * TicksPerDay < endDate - startDate

(* C15: every stored booking's totalAmount is the daily rate of its        *)
(* equipment times the days, at least 1, of its stored window, whatever    *)
(* createBooking and updateBooking calls were made.                        *)
C15_AmountMatchesWindow ==
    \A id \in DOMAIN bookings :
        LET b == bookings[id]
        IN  /\ b.endDate > b.startDate
            /\ DaysCharged(b.startDate, b.endDate) >= 1
            /\ b.totalAmount = equipmentRepository[b.equipmentId].dailyRate
                                   * DaysCharged(b.startDate, b.endDate)

InclusiveOverlap(s1, e1, s2, e2) == s1 <= e2 /\ s2 <= e1

Blocks(id, equipmentId, startDate, endDate) ==
    /\ bookings[id].equipmentId = equipmentId
    /\ bookings[id].status \in {"pending", "confirmed", "active"}
    /\ InclusiveOverlap(startDate, endDate, bookings[id].startDate, bookings[id].endDate)

AvailabilityAnswered ==
    response.op = "checkAvailability" /\ response.result = "ok"

(* C18: for every candidate window s < e and existing window s' < e' the   *)
(* three-clause condition of the conflict query holds exactly when the     *)
(* windows overlap with inclusive bounds, and checkConflict is true        *)
(* exactly when a pending, confirmed or active booking of that equipment,  *)
(* other than the excluded one, overlaps the candidate.                    *)
C18_ConflictIsInclusiveOverlap ==
    AvailabilityAnswered =>
        LET s == response.request.startDate
            e == response.request.endDate
            equipmentId == response.request.equipmentId
        IN  /\ s < e
            /\ \A s2, e2 \in Times :
                 s2 < e2 =>
                   (ConflictClause([startDate |-> s2, endDate |-> e2], s, e)
                    <=> InclusiveOverlap(s, e, s2, e2))
            /\ \A exclude \in BookingIds \cup {NoId} :
                 checkConflict(bookings, equipmentId, s, e, exclude)
                 <=> \E id \in DOMAIN bookings \ {exclude} : Blocks(id, equipmentId, s, e)
            /\ equipmentRepository[equipmentId].status = "available"
               => (response.available
                   <=> ~\E id \in DOMAIN bookings : Blocks(id, equipmentId, s, e))

C18_UnavailableAtBoundary ==
    /\ AvailabilityAnswered
    /\ ~response.available
    /\ \E id \in DOMAIN bookings :
         /\ Blocks(id, response.request.equipmentId,
                   response.request.startDate, response.request.endDate)
         /\ bookings[id].endDate = response.request.startDate

DayOf(t) == t \div TicksPerDay

(* C19: a createBooking request for an equipment whose start date falls on *)
(* the calendar day on which a pending, confirmed or active booking of     *)
(* that equipment ends fails with Conflict, whatever the times of day.     *)
C19_BoundaryTouchIsConflict ==
    \A new \in DOMAIN bookings :
        (response.op = "createBooking" /\ response.id = new)
        => /\ response.result = "ok"
           /\ ~\E id \in DOMAIN bookings \ {new} :
                 /\ bookings[id].equipmentId = bookings[new].equipmentId
                 /\ bookings[id].status \in {"pending", "confirmed", "active"}
                 /\ DayOf(bookings[id].endDate) = DayOf(bookings[new].startDate)

Priced ==
    /\ response.op = "calculateTotalAmount"
    /\ response.request.equipmentId \in DOMAIN equipmentRepository

(* C16: the amount is a function of the daily rate and the window alone:   *)
(* the rate times the least number of whole days covering endDate -        *)
(* startDate; the computation fails with Validation when that number is    *)
(* below 1, and rate 100 over a window of 3 days gives 300.                *)
C16_PricingIsRateTimesDays ==
    Priced =>
        LET rate == equipmentRepository[response.request.equipmentId].dailyRate
            s == response.request.startDate
            e == response.request.endDate
        IN  /\ IF e <= s
               THEN response.result = "Validation"
               ELSE /\ response.result = "ok"
                    /\ response.amount = rate * DaysCharged(s, e)
            /\ (rate = 100 /\ e - s = 3 * TicksPerDay) => response.amount = 300

C16_ThreeDaysAtHundred ==
    /\ Priced
    /\ equipmentRepository[response.request.equipmentId].dailyRate = 100
    /\ response.request.endDate - response.request.startDate = 3 * TicksPerDay
    /\ response.result = "ok"
    /\ response.amount = 300

Validated == response.op = "checkAvailability"

RejectedWindow(yearDays) ==
    LET today == DayOf(now)
        start == DayOf(response.request.startDate)
        end == DayOf(response.request.endDate)
    IN  \/ start < today
        \/ end <= start
        \/ start > today + yearDays

(* C17 as the specification words it: the window validation, on values     *)
(* truncated to the day, rejects with Validation exactly when start <      *)
(* today, or end <= start, or start > today + 365 days.                    *)
C17_Original_Within365Days ==
    Validated => (response.result = "Validation" <=> RejectedWindow(DaysPerYear))

(* C17: the window validation, on values truncated to the day, rejects     *)
(* with Validation exactly when start < today, or end <= start, or start   *)
(* is after the same calendar date one year from today, which is 365 days  *)
(* ahead, and 366 days ahead when a 29 February lies in between.            *)
C17_WindowValidation ==
    Validated =>
        (response.result = "Validation"
         <=> RejectedWindow(IF DayOf(now) <= LeapDay THEN DaysPerYear + 1 ELSE DaysPerYear))

C17_RejectedAsTooFar ==
    /\ Validated
    /\ response.result = "Validation"
    /\ DayOf(response.request.startDate) >= DayOf(now)
    /\ DayOf(response.request.endDate) > DayOf(response.request.startDate)
    /\ DayOf(response.request.startDate) > DayOf(now) + DaysPerYear

Updated(p) == inflight[p].stage = "updated" /\ inflight[p].result = "ok"

(* C20: of a createBooking and a date-changing updateBooking of another    *)
(* booking, or of two date-changing updateBooking calls on different       *)
(* bookings, of one equipment, run concurrently with overlapping target    *)
(* windows, at most one commits its window.                                *)
C20_CreateAndUpdateExclusive ==
    \A p, q \in Procs :
        (/\ p # q
         /\ Updated(p)
         /\ Succeeded(q) \/ Updated(q)
         /\ inflight[p].id # inflight[q].id
         /\ inflight[p].data.equipmentId = inflight[q].data.equipmentId)
        => ~Overlap(inflight[p].data, inflight[q].data)


(* the first check of createBooking that a request fails in the state it   *)
(* was made in, "none" when it passes all of them                          *)
FirstFailingCheck(data) ==
    IF validateBookingDates(data.startDate, data.endDate, now) # "ok" THEN "window"
    ELSE IF data.equipmentId \notin DOMAIN equipmentRepository THEN "exists"
    ELSE IF equipmentRepository[data.equipmentId].status # "available" THEN "status"
    ELSE IF \E id \in DOMAIN bookings :
                Blocks(id, data.equipmentId, data.startDate, data.endDate)
    THEN "conflict"
    ELSE "none"

ErrorOfCheck ==
    [window |-> "Validation", exists |-> "NotFound", status |-> "Validation",
     conflict |-> "Conflict"]

StoresOneNewPending ==
    \E id \in DOMAIN bookings' \ DOMAIN bookings :
        /\ DOMAIN bookings' = DOMAIN bookings \cup {id}
        /\ bookings'[id].status = "pending"
        /\ \A other \in DOMAIN bookings : bookings'[other] = bookings[other]

(* C21: createBooking fails with the error of the first check its request  *)
(* fails, in the order window validation (Validation), equipment exists    *)
(* (NotFound), equipment status available (Validation), no conflict        *)
(* (Conflict); every failing createBooking leaves the stored bookings      *)
(* unchanged, and a successful one stores exactly one new booking, with    *)
(* status pending, after all checks passed.                                *)
C21_FirstFailingCheckDecides ==
    [][Calls("createBooking") =>
         LET failed == FirstFailingCheck(response'.request)
         IN  /\ failed # "none" => response'.result = ErrorOfCheck[failed]
             /\ response'.result # "ok" => bookings' = bookings
             /\ response'.result = "ok" => failed = "none" /\ StoresOneNewPending]_vars

C21_WindowRejectedBeforeLookup ==
    /\ response.op = "createBooking"
    /\ response.result = "Validation"
    /\ response.request.equipmentId \notin DOMAIN equipmentRepository
    /\ bookings # <<>>


(* C22: checkAvailability fails with Validation when the window fails the  *)
(* window validation of creation; for a known equipment it answers false   *)
(* when the equipment's status is not available and otherwise the negation *)
(* of the conflict query; it changes no stored state.                      *)
C22_AvailabilityAnswer ==
    [][Calls("checkAvailability") =>
         LET r == response'.request
         IN  /\ bookings' = bookings /\ payments' = payments
             /\ nextBookingId' = nextBookingId
             /\ validateBookingDates(r.startDate, r.endDate, now) # "ok"
                => response'.result = "Validation"
             /\ (/\ validateBookingDates(r.startDate, r.endDate, now) = "ok"
                 /\ r.equipmentId \in DOMAIN equipmentRepository)
                => /\ response'.result = "ok"
                   /\ response'.available
                      = (/\ equipmentRepository[r.equipmentId].status = "available"
                         /\ ~\E id \in DOMAIN bookings :
                               Blocks(id, r.equipmentId, r.startDate, r.endDate))]_vars

C22_FalseForEquipmentInMaintenance ==
    /\ AvailabilityAnswered
    /\ ~response.available
    /\ equipmentRepository[response.request.equipmentId].status # "available"
    /\ bookings # <<>>
    /\ ~\E id \in DOMAIN bookings :
          Blocks(id, response.request.equipmentId,
                 response.request.startDate, response.request.endDate)


EmittingOperations ==
    {"createBooking", "updateBooking", "cancelBooking", "confirmBooking",
     "handlePaymentSuccess"}

PatchedFields == {"startDate", "endDate", "deliveryAddress", "notes", "status"}

(* the state change of the operation that answers in the next state is in  *)
(* the store of the next state                                             *)
Persisted(op) ==
    LET id == response'.id
    IN  CASE op = "createBooking" ->
                id \in DOMAIN bookings' \ DOMAIN bookings
          [] op = "updateBooking" ->
                \A f \in PatchedFields :
                    Has(response'.request[f])
                    => bookings'[id][f] = Get(response'.request[f])
          [] op = "cancelBooking" -> bookings'[id].status = "cancelled"
          [] op = "confirmBooking" -> bookings'[id].status = "confirmed"
          [] op = "handlePaymentSuccess" ->
                id \in DOMAIN payments
                => /\ payments'[id].status = "succeeded"
                   /\ bookings'[payments[id].bookingId].status = "confirmed"

(* C23: a failure of the event sink never fails or undoes the operation    *)
(* that triggered it: a createBooking, updateBooking, cancelBooking,       *)
(* confirmBooking or handlePaymentSuccess that wrote its change to a       *)
(* booking returns success, and one that returned success with nothing     *)
(* emitted has its state change persisted.                                 *)
C23_SinkFailureIsSwallowed ==
    [][\A op \in EmittingOperations :
          Calls(op) =>
            /\ bookings' # bookings => response'.result = "ok"
            /\ (response'.result = "ok" /\ response'.emitted = {})
               => Persisted(op)]_vars

C23_CancelledWithSinkDown ==
    /\ response.op = "cancelBooking"
    /\ response.result = "ok"
    /\ response.emitted = {}
    /\ bookings[response.id].status = "cancelled"


(* C24: handlePaymentFailure never changes the status or any other field   *)
(* of a booking; it only sets the status of the payment it was delivered   *)
(* for to failed and emits 'payment failed'.                               *)
C24_FailureLeavesBookingAlone ==
    [][Calls("handlePaymentFailure") =>
         LET pid == response'.id
         IN  /\ bookings' = bookings
             /\ nextBookingId' = nextBookingId
             /\ payments' = IF pid \in DOMAIN payments
                            THEN [payments EXCEPT ![pid].status = "failed"]
                            ELSE payments
             /\ response'.emitted \subseteq {"payment:failed"}]_vars

C24_PaymentFailedBookingKept ==
    /\ response.op = "handlePaymentFailure"
    /\ response.prePayment = "pending"
    /\ response.emitted = {"payment:failed"}
    /\ payments[response.id].status = "failed"
    /\ BookingOf(response.id) \in DOMAIN bookings
    /\ bookings[BookingOf(response.id)].status = response.pre
    /\ response.pre \in {"pending", "confirmed"}


(* the caller of the operation answering in the next state, against the    *)
(* booking it was called on                                                *)
CallerOwns(id) == bookings[id].customerId = response'.user

CallerIs(roles) == role(response'.user) \in roles

(* an operation on a stored booking is refused with Authorization, leaving *)
(* the booking as it was, exactly when the caller is not permitted         *)
PermittedExactlyTo(op, roles) ==
    (Calls(op) /\ response'.id \in DOMAIN bookings) =>
        LET id == response'.id
        IN  /\ response'.result = "Authorization"
               <=> ~(CallerOwns(id) \/ CallerIs(roles))
            /\ response'.result = "Authorization" => bookings' = bookings

LivePayments(bookingId) ==
    {pid \in DOMAIN payments :
        payments[pid].bookingId = bookingId /\ payments[pid].status # "failed"}

(* C26: a booking has at most one payment record that is not failed,       *)
(* after any sequence of createPaymentIntent calls, including calls in     *)
(* which the gateway lookup of the existing intent fails.                  *)
C26_AtMostOneLivePayment ==
    \A bookingId \in DOMAIN bookings : Cardinality(LivePayments(bookingId)) <= 1


(* the request answered in the next state patches exactly one of the two   *)
(* dates of a stored booking that is not terminal, for a permitted caller  *)
OneDatePatched(id) ==
    /\ Calls("updateBooking")
    /\ response'.id = id
    /\ Has(response'.request.startDate) # Has(response'.request.endDate)
    /\ bookings[id].status \notin TerminalStatuses
    /\ CallerOwns(id) \/ CallerIs({"admin", "logistics"})

(* C27: an updateBooking patch with only startDate or only endDate takes   *)
(* the missing bound from the stored booking, then validates, conflict-    *)
(* checks and prices the merged window: an invalid merged window fails     *)
(* with Validation; one that overlaps another pending, confirmed or active *)
(* booking of the same equipment fails with Conflict and leaves the        *)
(* booking unchanged; any other, also one that overlaps only the booking's *)
(* own stored window, succeeds and stores the merged window and its price. *)
C27_PartialPatchMergesWindow ==
    [][\A id \in DOMAIN bookings :
          OneDatePatched(id) =>
            LET b == bookings[id]
                s == OrElse(response'.request.startDate, b.startDate)
                e == OrElse(response'.request.endDate, b.endDate)
            IN  IF validateBookingDates(s, e, now) # "ok"
                THEN response'.result = "Validation" /\ bookings' = bookings
                ELSE IF \E other \in DOMAIN bookings \ {id} :
                            Blocks(other, b.equipmentId, s, e)
                THEN response'.result = "Conflict" /\ bookings' = bookings
                ELSE /\ response'.result = "ok"
                     /\ bookings'[id].startDate = s
                     /\ bookings'[id].endDate = e
                     /\ bookings'[id].totalAmount
                        = equipmentRepository[b.equipmentId].dailyRate
                          * DaysCharged(s, e)]_vars


(* C28: updateBooking never changes the status, the customerId or the      *)
(* equipmentId of the booking, and changes its totalAmount only to the     *)
(* amount recomputed for its window: only startDate, endDate,              *)
(* deliveryAddress, notes and the derived totalAmount can differ between   *)
(* the booking before and after, and no other booking differs.             *)
C28_UpdateFrame ==
    [][Calls("updateBooking") =>
         /\ DOMAIN bookings' = DOMAIN bookings
         /\ \A id \in DOMAIN bookings :
              LET before == bookings[id]
                  after == bookings'[id]
              IN  /\ id # response'.id => after = before
                  /\ after.status = before.status
                  /\ after.customerId = before.customerId
                  /\ after.equipmentId = before.equipmentId
                  /\ after.totalAmount # before.totalAmount
                     => after.totalAmount
                        = equipmentRepository[after.equipmentId].dailyRate
                          * DaysCharged(after.startDate, after.endDate)]_vars


(* the statuses from which the specification lets each operation act *)
GuardStatuses ==
    [cancelBooking |-> {"pending", "confirmed"}, confirmBooking |-> {"pending"},
     startBooking |-> {"confirmed"}, completeBooking |-> {"active"},
     deleteBooking |-> {"pending", "cancelled"}]

Writes(p) ==
    /\ inflight[p].stage = "checkedStatus"
    /\ inflight'[p].stage = "answered"
    /\ bookings' # bookings

(* C29: with status operations interleaved, each reading the status before *)
(* either writes, the stored statuses still follow only legal edges, and   *)
(* no write or delete is applied to a booking whose status at write time   *)
(* would have made the operation's guard fail.                             *)
C29_GuardsHoldUnderInterleaving ==
    [][/\ \A id \in DOMAIN bookings \cap DOMAIN bookings' :
            bookings'[id].status # bookings[id].status
            => <<bookings[id].status, bookings'[id].status>> \in LegalEdges
       /\ \A p \in Procs :
            Writes(p)
            => bookings[inflight[p].id].status \in GuardStatuses[inflight[p].op]]_vars


(* checkAvailability, asked in the current state for the equipment and    *)
(* window of a request, returns true: it neither fails nor returns false   *)
AnsweredAvailable(data) ==
    /\ checkAvailabilityResult(now, data.equipmentId, data.startDate, data.endDate)
       = "ok"
    /\ isAvailable(bookings, data.equipmentId, data.startDate, data.endDate)

(* C30: checkAvailability agrees with createBooking: a createBooking       *)
(* executed atomically in a state where checkAvailability answers true for *)
(* the same equipment and window succeeds, and one executed where it       *)
(* answers false or fails, fails with Validation, NotFound or Conflict.    *)
C30_AvailabilityAgreesWithCreate ==
    [][Calls("createBooking") =>
         IF AnsweredAvailable(response'.request)
         THEN response'.result = "ok"
         ELSE response'.result \in {"Validation", "NotFound", "Conflict"}]_vars

====
